---- MODULE Spec2Model ----
(***************************************************************************)
(* CHIRP Manager (src/CHIRP/Manager.cpp): the registered and discovered    *)
(* service sets, the discover-callback registry, their three mutexes, the  *)
(* public operations called from application threads, the receive loop     *)
(* Manager::Run on its jthread, and the destructor.                        *)
(***************************************************************************)
EXTENDS Integers, Sequences, FiniteSets, Bags, TLC

\* ---- bounds of the exploration ----
MaxEvents == 3   \* public calls started plus datagrams delivered

\* ---- domains ----
Hashes == {1, 2}                      \* MD5 digests, ordered as integers
ServiceIdentifiers == {1, 2}          \* std::to_underlying of the enumeration
Ports == {7000, 9000}
Addresses == {"ip1", "ip2"}
MessageTypes == {"REQUEST", "OFFER", "LEAVING"}
\* (callback, data) pointer pairs, pointers ordered as integers: one
\* function registered with two different data pointers
Callbacks == {<<1, 1>>, <<1, 2>>}
AppThreads == {"app1", "app2"}
\* detached threads running a callback body that are followed
CallbackThreads == {"cb1"}
\* the threads that can call the public operations
Callers == AppThreads \cup CallbackThreads
Threads == Callers \cup {"main", "run"}

\* Hashes fixed by the constructor
group_hash_ == 1
name_hash_ == 1

Free == "free"
None == "none"
\* a payload the codec rejects (wrong length, magic or enumeration tag)
Malformed ==
    [type |-> "malformed", group_hash |-> 0, name_hash |-> 0,
     identifier |-> 0, port |-> 0]
\* values of locals that hold nothing
NoService == [identifier |-> 0, port |-> 0]
NoCallback == <<0, 0>>
NoDatagram == [ip |-> "none", content |-> [Malformed EXCEPT !.type = "none"]]
NoDiscovered == [address |-> "none", name_hash |-> 0, identifier |-> 0, port |-> 0]
NoTask == [callback |-> NoCallback, service |-> NoDiscovered, departing |-> FALSE]

RegisteredServices == [identifier : ServiceIdentifiers, port : Ports]
Messages ==
    [type : MessageTypes, group_hash : Hashes, name_hash : Hashes,
     identifier : ServiceIdentifiers, port : Ports]
\* what RecvBroadcast returns: source address and raw content; the content
\* either parses to a Message or raises DecodeError
Datagrams == [ip : Addresses, content : Messages \cup {Malformed}]

\* ---- orderings of the two std::set element types ----
\* mutant: the port tie-break is missing
RegisteredService_less_by_identifier(a, b) == a.identifier < b.identifier

RegisteredService_less(a, b) ==
    IF a.identifier < b.identifier THEN TRUE
    ELSE IF a.identifier > b.identifier THEN FALSE
    ELSE a.port < b.port

\* mutant: the source address takes part in the ordering
DiscoveredService_less_with_address(a, b) ==
    IF a.address # b.address THEN a.address = "ip1"
    ELSE IF a.name_hash < b.name_hash THEN TRUE
    ELSE IF a.name_hash > b.name_hash THEN FALSE
    ELSE IF a.identifier < b.identifier THEN TRUE
    ELSE IF a.identifier > b.identifier THEN FALSE
    ELSE a.port < b.port

DiscoveredService_less(a, b) ==
    IF a.name_hash < b.name_hash THEN TRUE
    ELSE IF a.name_hash > b.name_hash THEN FALSE
    ELSE IF a.identifier < b.identifier THEN TRUE
    ELSE IF a.identifier > b.identifier THEN FALSE
    ELSE a.port < b.port

\* std::set operations under a strict weak ordering
registered_contains(S, x) ==
    \E e \in S : ~RegisteredService_less(e, x) /\ ~RegisteredService_less(x, e)

registered_insert(S, x) == IF registered_contains(S, x) THEN S ELSE S \cup {x}
registered_erase(S, x) ==
    {e \in S : RegisteredService_less(e, x) \/ RegisteredService_less(x, e)}
\* first element in iteration order
registered_begin(S) ==
    CHOOSE e \in S : \A o \in S \ {e} : RegisteredService_less(e, o)

discovered_contains(S, x) ==
    \E e \in S : ~DiscoveredService_less(e, x) /\ ~DiscoveredService_less(x, e)

discovered_insert(S, x) == IF discovered_contains(S, x) THEN S ELSE S \cup {x}
discovered_erase(S, x) ==
    {e \in S : DiscoveredService_less(e, x) \/ DiscoveredService_less(x, e)}

\* std::pair<DiscoverCallback*, void*> under operator<
\* mutant: the data pointer is not compared
callback_less_by_function(a, b) == a[1] < b[1]

callback_less(a, b) ==
    IF a[1] < b[1] THEN TRUE
    ELSE IF b[1] < a[1] THEN FALSE
    ELSE a[2] < b[2]

callbacks_contains(S, x) ==
    \E e \in S : ~callback_less(e, x) /\ ~callback_less(x, e)

callbacks_emplace(S, x) == IF callbacks_contains(S, x) THEN S ELSE S \cup {x}
callbacks_erase(S, x) ==
    {e \in S : callback_less(e, x) \/ callback_less(x, e)}

VARIABLES
    registered_services_,          \* std::set<RegisteredService>
    discovered_services_,          \* std::set<DiscoveredService>
    discover_callbacks_,           \* std::set<pair<DiscoverCallback*, void*>>
    registered_services_mutex_,    \* holder thread or Free
    discovered_services_mutex_,
    discover_callbacks_mutex_,
    stop_requested,                \* stop state of run_thread_
    run_thread_,                   \* "none" (not joinable), "running", "joined"
    pc,                            \* position of every thread
    service_arg,                   \* `service` argument of a thread's call
    callback_arg,                  \* (callback, data) argument of a thread's call
    flag,                          \* actually_inserted / actually_erased
    iter,                          \* elements a range-for has still to visit
    raw_msg,                       \* Run: datagram being processed
    discovered_service,            \* Run: the DiscoveredService local
    wire,                          \* datagrams handed to SendBroadcast, in order
    spawned,                       \* detached callback threads started (bag)
    running,                       \* the callback a followed detached thread
                                   \* is executing, or NoTask
    transitions,                   \* insertions into / removals from the
                                   \* discovered set so far (bag)
    withdrawn,                     \* pairs removed from discover_callbacks_
                                   \* and not registered again since
    dropped,                       \* Run: why the last datagram hit `continue`
    nevents                        \* calls started plus datagrams delivered

vars == <<registered_services_, discovered_services_, discover_callbacks_,
          registered_services_mutex_, discovered_services_mutex_,
          discover_callbacks_mutex_, stop_requested, run_thread_, pc,
          service_arg, callback_arg, flag, iter, raw_msg, discovered_service, wire, spawned,
          running, transitions, withdrawn, dropped, nevents>>

sets == <<registered_services_, discovered_services_, discover_callbacks_>>
mutexes == <<registered_services_mutex_, discovered_services_mutex_,
             discover_callbacks_mutex_>>

arg == <<service_arg, callback_arg>>
runlocals == <<raw_msg, discovered_service, dropped>>
outputs == <<wire, spawned, transitions>>
lifecycle == <<stop_requested, run_thread_>>

Init ==
    /\ registered_services_ = {}
    /\ discovered_services_ = {}
    /\ discover_callbacks_ = {}
    /\ registered_services_mutex_ = Free
    /\ discovered_services_mutex_ = Free
    /\ discover_callbacks_mutex_ = Free
    /\ stop_requested = FALSE
    /\ run_thread_ = "none"
    /\ pc = [t \in Threads |->
                IF t \in Callers THEN "idle"
                ELSE IF t = "main" THEN "alive" ELSE "unstarted"]
    /\ service_arg = [t \in Threads |-> NoService]
    /\ callback_arg = [t \in Threads |-> NoCallback]
    /\ flag = [t \in Threads |-> FALSE]
    /\ iter = [t \in Threads |-> {}]
    /\ raw_msg = NoDatagram
    /\ discovered_service = NoDiscovered
    /\ wire = <<>>
    /\ spawned = EmptyBag
    /\ running = [t \in CallbackThreads |-> NoTask]
    /\ transitions = EmptyBag
    /\ withdrawn = {}
    /\ dropped = None
    /\ nevents = 0

\* ---- helpers ----

\* Manager::SendMessage: a Message with the local hashes goes to SendBroadcast.
\* thread and caller record who sent it.
SendMessage(type, service, t, caller) ==
    wire' = Append(wire,
        [msg |-> [type |-> type, group_hash |-> group_hash_,
                  name_hash |-> name_hash_,
                  identifier |-> service.identifier, port |-> service.port],
         thread |-> t, caller |-> caller])

\* a public operation may start on an application thread, or on a detached
\* thread inside its callback, that is not in a call, while the Manager
\* object is alive
CanCall(t) ==
    /\ t \in Callers
    /\ pc[t] = "idle"
    /\ t \in CallbackThreads => running[t] # NoTask
    /\ pc["main"] = "alive"
    /\ nevents < MaxEvents

Goto(t, label) == pc' = [pc EXCEPT ![t] = label]

\* ---- RegisterService ----
RegisterService_insert(t, service) ==
    /\ CanCall(t)
    /\ registered_services_mutex_ = Free
    /\ Goto(t, "RegisterService:unlock")
    /\ registered_services_mutex_' = t
    /\ registered_services_' = registered_insert(registered_services_, service)
    /\ flag' = [flag EXCEPT ![t] = ~registered_contains(registered_services_, service)]
    /\ service_arg' = [service_arg EXCEPT ![t] = service]
    /\ UNCHANGED callback_arg
    /\ nevents' = nevents + 1
    /\ UNCHANGED <<discovered_services_, discover_callbacks_,
                   discovered_services_mutex_,
                   discover_callbacks_mutex_, lifecycle, iter,
                   runlocals, wire, spawned, transitions>>
    /\ UNCHANGED <<running, withdrawn>>

\* mutant: the lock is kept for the send
RegisterService_unlock_kept(t) ==
    /\ pc[t] = "RegisterService:unlock"
    /\ Goto(t, "RegisterService:send")
    /\ UNCHANGED <<sets, mutexes, lifecycle, arg,
                   flag, iter, runlocals, wire, spawned,
                   transitions, nevents>>
    /\ UNCHANGED <<running, withdrawn>>

RegisterService_unlock(t) ==
    /\ pc[t] = "RegisterService:unlock"
    /\ Goto(t, "RegisterService:send")
    /\ registered_services_mutex_' = Free
    /\ UNCHANGED <<sets, discovered_services_mutex_,
                   discover_callbacks_mutex_, lifecycle, arg,
                   flag, iter, runlocals, wire, spawned,
                   transitions, nevents>>
    /\ UNCHANGED <<running, withdrawn>>

RegisterService_send(t) ==
    /\ pc[t] = "RegisterService:send"
    /\ IF flag[t] THEN SendMessage("OFFER", service_arg[t], t, "RegisterService")
                  ELSE wire' = wire
    /\ Goto(t, "idle")
    /\ service_arg' = [service_arg EXCEPT ![t] = NoService]
    /\ UNCHANGED callback_arg
    /\ flag' = [flag EXCEPT ![t] = FALSE]
    /\ UNCHANGED <<sets, mutexes, lifecycle, iter, runlocals, spawned,
                   transitions, nevents>>
    /\ UNCHANGED <<running, withdrawn>>

\* ---- UnregisterService ----
UnregisterService_erase(t, service) ==
    /\ CanCall(t)
    /\ registered_services_mutex_ = Free
    /\ Goto(t, "UnregisterService:unlock")
    /\ registered_services_mutex_' = t
    /\ registered_services_' = registered_erase(registered_services_, service)
    /\ flag' = [flag EXCEPT ![t] = registered_contains(registered_services_, service)]
    /\ service_arg' = [service_arg EXCEPT ![t] = service]
    /\ UNCHANGED callback_arg
    /\ nevents' = nevents + 1
    /\ UNCHANGED <<discovered_services_, discover_callbacks_,
                   discovered_services_mutex_,
                   discover_callbacks_mutex_, lifecycle, iter,
                   runlocals, wire, spawned, transitions>>
    /\ UNCHANGED <<running, withdrawn>>

UnregisterService_unlock(t) ==
    /\ pc[t] = "UnregisterService:unlock"
    /\ Goto(t, "UnregisterService:send")
    /\ registered_services_mutex_' = Free
    /\ UNCHANGED <<sets, discovered_services_mutex_,
                   discover_callbacks_mutex_, lifecycle, arg,
                   flag, iter, runlocals, wire, spawned,
                   transitions, nevents>>
    /\ UNCHANGED <<running, withdrawn>>

\* mutant: LEAVING is sent whether or not the service was erased
UnregisterService_send_always(t) ==
    /\ pc[t] = "UnregisterService:send"
    /\ SendMessage("LEAVING", service_arg[t], t, "UnregisterService")
    /\ Goto(t, "idle")
    /\ service_arg' = [service_arg EXCEPT ![t] = NoService]
    /\ UNCHANGED callback_arg
    /\ flag' = [flag EXCEPT ![t] = FALSE]
    /\ UNCHANGED <<sets, mutexes, lifecycle, iter, runlocals, spawned,
                   transitions, nevents>>
    /\ UNCHANGED <<running, withdrawn>>

UnregisterService_send(t) ==
    /\ pc[t] = "UnregisterService:send"
    /\ IF flag[t] THEN SendMessage("LEAVING", service_arg[t], t, "UnregisterService")
                  ELSE wire' = wire
    /\ Goto(t, "idle")
    /\ service_arg' = [service_arg EXCEPT ![t] = NoService]
    /\ UNCHANGED callback_arg
    /\ flag' = [flag EXCEPT ![t] = FALSE]
    /\ UNCHANGED <<sets, mutexes, lifecycle, iter, runlocals, spawned,
                   transitions, nevents>>
    /\ UNCHANGED <<running, withdrawn>>

\* ---- UnregisterServices (public, and called by the destructor) ----
UnregisterServices_lock(t) ==
    /\ Goto(t, "UnregisterServices:loop")
    /\ \/ CanCall(t) /\ nevents' = nevents + 1
       \/ t = "main" /\ pc[t] = "~Manager:UnregisterServices" /\ UNCHANGED nevents
    /\ registered_services_mutex_ = Free
    /\ registered_services_mutex_' = t
    /\ iter' = [iter EXCEPT ![t] = registered_services_]
    /\ UNCHANGED <<sets, discovered_services_mutex_,
                   discover_callbacks_mutex_, lifecycle, arg,
                   flag, runlocals, wire, spawned, transitions>>
    /\ UNCHANGED <<running, withdrawn>>

UnregisterServices_loop(t) ==
    /\ pc[t] = "UnregisterServices:loop"
    /\ iter[t] # {}
    /\ LET service == registered_begin(iter[t]) IN
         /\ SendMessage("LEAVING", service, t, "UnregisterServices")
         /\ iter' = [iter EXCEPT ![t] = iter[t] \ {service}]
    /\ UNCHANGED <<sets, mutexes, lifecycle, pc, arg, flag, runlocals,
                   spawned, transitions, nevents>>
    /\ UNCHANGED <<running, withdrawn>>

\* mutant: the loop stops one element early
UnregisterServices_clear_early(t) ==
    /\ pc[t] = "UnregisterServices:loop"
    /\ Cardinality(iter[t]) <= 1
    /\ IF t = "main"
         THEN Goto(t, "destroyed")
         ELSE Goto(t, "idle")
    /\ registered_services_' = {}
    /\ registered_services_mutex_' = Free
    /\ iter' = [iter EXCEPT ![t] = {}]
    /\ UNCHANGED <<discovered_services_, discover_callbacks_,
                   discovered_services_mutex_,
                   discover_callbacks_mutex_, lifecycle, arg,
                   flag, runlocals, wire, spawned, transitions,
                   nevents>>
    /\ UNCHANGED <<running, withdrawn>>

UnregisterServices_clear(t) ==
    /\ pc[t] = "UnregisterServices:loop"
    /\ iter[t] = {}
    /\ registered_services_' = {}
    /\ registered_services_mutex_' = Free
    /\ IF t = "main"
         THEN Goto(t, "destroyed")
         ELSE Goto(t, "idle")
    /\ UNCHANGED <<discovered_services_, discover_callbacks_,
                   discovered_services_mutex_,
                   discover_callbacks_mutex_, lifecycle, arg,
                   flag, iter, runlocals, wire, spawned,
                   transitions, nevents>>
    /\ UNCHANGED <<running, withdrawn>>

\* ---- GetRegisteredServices / GetDiscoveredServices ----
GetRegisteredServices_copy(t) ==
    /\ CanCall(t)
    /\ registered_services_mutex_ = Free
    /\ Goto(t, "GetRegisteredServices:return")
    /\ registered_services_mutex_' = t
    /\ iter' = [iter EXCEPT ![t] = registered_services_]
    /\ nevents' = nevents + 1
    /\ UNCHANGED <<sets, discovered_services_mutex_,
                   discover_callbacks_mutex_, lifecycle, arg,
                   flag, runlocals, wire, spawned, transitions>>
    /\ UNCHANGED <<running, withdrawn>>

GetRegisteredServices_return(t) ==
    /\ pc[t] = "GetRegisteredServices:return"
    /\ Goto(t, "idle")
    /\ registered_services_mutex_' = Free
    /\ iter' = [iter EXCEPT ![t] = {}]
    /\ UNCHANGED <<sets, discovered_services_mutex_,
                   discover_callbacks_mutex_, lifecycle, arg,
                   flag, runlocals, wire, spawned, transitions,
                   nevents>>
    /\ UNCHANGED <<running, withdrawn>>

GetDiscoveredServices_copy(t) ==
    /\ CanCall(t)
    /\ discovered_services_mutex_ = Free
    /\ Goto(t, "GetDiscoveredServices:return")
    /\ discovered_services_mutex_' = t
    /\ iter' = [iter EXCEPT ![t] = discovered_services_]
    /\ nevents' = nevents + 1
    /\ UNCHANGED <<sets, registered_services_mutex_,
                   discover_callbacks_mutex_, lifecycle, arg,
                   flag, runlocals, wire, spawned, transitions>>
    /\ UNCHANGED <<running, withdrawn>>

GetDiscoveredServices_return(t) ==
    /\ pc[t] = "GetDiscoveredServices:return"
    /\ Goto(t, "idle")
    /\ discovered_services_mutex_' = Free
    /\ iter' = [iter EXCEPT ![t] = {}]
    /\ UNCHANGED <<sets, registered_services_mutex_,
                   discover_callbacks_mutex_, lifecycle, arg,
                   flag, runlocals, wire, spawned, transitions,
                   nevents>>
    /\ UNCHANGED <<running, withdrawn>>

\* ---- discover-callback registry ----
RegisterDiscoverCallback_emplace(t, callback) ==
    /\ CanCall(t)
    /\ discover_callbacks_mutex_ = Free
    /\ Goto(t, "RegisterDiscoverCallback:return")
    /\ discover_callbacks_mutex_' = t
    /\ discover_callbacks_' = callbacks_emplace(discover_callbacks_, callback)
    /\ flag' = [flag EXCEPT ![t] = ~callbacks_contains(discover_callbacks_, callback)]
    /\ callback_arg' = [callback_arg EXCEPT ![t] = callback]
    /\ UNCHANGED service_arg
    /\ nevents' = nevents + 1
    /\ UNCHANGED <<registered_services_, discovered_services_,
                   registered_services_mutex_,
                   discovered_services_mutex_, lifecycle, iter,
                   runlocals, wire, spawned, transitions>>
    /\ UNCHANGED running
    /\ withdrawn' = withdrawn \ {callback}

RegisterDiscoverCallback_return(t) ==
    /\ pc[t] = "RegisterDiscoverCallback:return"
    /\ Goto(t, "idle")
    /\ discover_callbacks_mutex_' = Free
    /\ callback_arg' = [callback_arg EXCEPT ![t] = NoCallback]
    /\ UNCHANGED service_arg
    /\ flag' = [flag EXCEPT ![t] = FALSE]
    /\ UNCHANGED <<sets, registered_services_mutex_,
                   discovered_services_mutex_, lifecycle, iter,
                   runlocals, wire, spawned, transitions,
                   nevents>>
    /\ UNCHANGED <<running, withdrawn>>

UnregisterDiscoverCallback_erase(t, callback) ==
    /\ CanCall(t)
    /\ discover_callbacks_mutex_ = Free
    /\ Goto(t, "UnregisterDiscoverCallback:return")
    /\ discover_callbacks_mutex_' = t
    /\ discover_callbacks_' = callbacks_erase(discover_callbacks_, callback)
    /\ flag' = [flag EXCEPT ![t] = callbacks_contains(discover_callbacks_, callback)]
    /\ callback_arg' = [callback_arg EXCEPT ![t] = callback]
    /\ UNCHANGED service_arg
    /\ nevents' = nevents + 1
    /\ UNCHANGED <<registered_services_, discovered_services_,
                   registered_services_mutex_,
                   discovered_services_mutex_, lifecycle, iter,
                   runlocals, wire, spawned, transitions>>
    /\ UNCHANGED running
    /\ withdrawn' = withdrawn \cup (discover_callbacks_ \ discover_callbacks_')

UnregisterDiscoverCallback_return(t) ==
    /\ pc[t] = "UnregisterDiscoverCallback:return"
    /\ Goto(t, "idle")
    /\ discover_callbacks_mutex_' = Free
    /\ callback_arg' = [callback_arg EXCEPT ![t] = NoCallback]
    /\ UNCHANGED service_arg
    /\ flag' = [flag EXCEPT ![t] = FALSE]
    /\ UNCHANGED <<sets, registered_services_mutex_,
                   discovered_services_mutex_, lifecycle, iter,
                   runlocals, wire, spawned, transitions,
                   nevents>>
    /\ UNCHANGED <<running, withdrawn>>

UnregisterDiscoverCallbacks_clear(t) ==
    /\ CanCall(t)
    /\ discover_callbacks_mutex_ = Free
    /\ Goto(t, "UnregisterDiscoverCallbacks:return")
    /\ discover_callbacks_mutex_' = t
    /\ discover_callbacks_' = {}
    /\ nevents' = nevents + 1
    /\ UNCHANGED <<registered_services_, discovered_services_,
                   registered_services_mutex_,
                   discovered_services_mutex_, lifecycle, arg,
                   flag, iter, runlocals, wire, spawned,
                   transitions>>
    /\ UNCHANGED running
    /\ withdrawn' = withdrawn \cup discover_callbacks_

UnregisterDiscoverCallbacks_return(t) ==
    /\ pc[t] = "UnregisterDiscoverCallbacks:return"
    /\ Goto(t, "idle")
    /\ discover_callbacks_mutex_' = Free
    /\ UNCHANGED <<sets, registered_services_mutex_,
                   discovered_services_mutex_, lifecycle, arg,
                   flag, iter, runlocals, wire, spawned,
                   transitions, nevents>>
    /\ UNCHANGED <<running, withdrawn>>

\* ---- Start and the destructor (thread "main") ----
Start ==
    /\ pc["main"] = "alive"
    /\ run_thread_ = "none"
    /\ run_thread_' = "running"
    /\ pc' = [pc EXCEPT !["run"] = "while"]
    /\ UNCHANGED <<sets, mutexes, stop_requested, arg, flag, iter,
                   runlocals, wire, spawned, transitions,
                   nevents>>
    /\ UNCHANGED <<running, withdrawn>>

\* the object is destroyed once no application thread is inside a call
Destructor_request_stop ==
    /\ pc["main"] = "alive"
    /\ \A t \in Callers : pc[t] = "idle"
    /\ Goto("main", "~Manager:join")
    /\ stop_requested' = (run_thread_ = "running")
    /\ UNCHANGED <<sets, mutexes, run_thread_, arg, flag, iter,
                   runlocals, wire, spawned, transitions,
                   nevents>>
    /\ UNCHANGED <<running, withdrawn>>

Destructor_join ==
    /\ pc["main"] = "~Manager:join"
    /\ \/ run_thread_ = "none" /\ UNCHANGED run_thread_
       \/ run_thread_ = "running" /\ pc["run"] = "exited"
            /\ run_thread_' = "joined"
    /\ Goto("main", "~Manager:UnregisterServices")
    /\ UNCHANGED <<sets, mutexes, stop_requested, arg, flag, iter,
                   runlocals, wire, spawned, transitions,
                   nevents>>
    /\ UNCHANGED <<running, withdrawn>>

\* ---- Manager::Run (thread "run") ----
DecodeError(content) == content.type \notin MessageTypes

\* mutant: the group check is missing
DifferentGroup_unchecked(msg) == FALSE

\* line 139: broadcast from a different group
DifferentGroup(msg) == msg.group_hash # group_hash_

\* line 143: the condition under the comment "Broadcast from self, ignore"
IgnoredByNameHash(msg) == msg.name_hash # name_hash_

Run_while ==
    /\ pc["run"] = "while"
    /\ Goto("run", IF stop_requested THEN "exited" ELSE "RecvBroadcast")
    /\ dropped' = None
    /\ UNCHANGED <<sets, mutexes, lifecycle, arg, flag, iter, raw_msg,
                   discovered_service, outputs, nevents>>
    /\ UNCHANGED <<running, withdrawn>>

\* mutant: DecodeError is not caught and ends Run
Run_RecvBroadcast_uncaught(d) ==
    /\ pc["run"] = "RecvBroadcast"
    /\ nevents < MaxEvents
    /\ nevents' = nevents + 1
    /\ IF DecodeError(d.content)
         THEN /\ dropped' = "DecodeError"
              /\ Goto("run", "exited")
              /\ UNCHANGED <<raw_msg, discovered_service>>
         ELSE IF DifferentGroup(d.content)
         THEN /\ dropped' = "group"
              /\ Goto("run", "while")
              /\ UNCHANGED <<raw_msg, discovered_service>>
         ELSE IF IgnoredByNameHash(d.content)
         THEN /\ dropped' = "name"
              /\ Goto("run", "while")
              /\ UNCHANGED <<raw_msg, discovered_service>>
         ELSE /\ raw_msg' = d
              /\ discovered_service' =
                    [address |-> d.ip, name_hash |-> d.content.name_hash,
                     identifier |-> d.content.identifier,
                     port |-> d.content.port]
              /\ dropped' = None
              /\ Goto("run", d.content.type \o ":lock")
    /\ UNCHANGED <<sets, mutexes, lifecycle, arg, flag, iter, outputs>>
    /\ UNCHANGED <<running, withdrawn>>

\* RecvBroadcast returns d; parse and filter; on a drop the loop continues
Run_RecvBroadcast(d) ==
    /\ pc["run"] = "RecvBroadcast"
    /\ nevents < MaxEvents
    /\ nevents' = nevents + 1
    /\ IF DecodeError(d.content)
         THEN /\ dropped' = "DecodeError"
              /\ Goto("run", "while")
              /\ UNCHANGED <<raw_msg, discovered_service>>
         ELSE IF DifferentGroup(d.content)
         THEN /\ dropped' = "group"
              /\ Goto("run", "while")
              /\ UNCHANGED <<raw_msg, discovered_service>>
         ELSE IF IgnoredByNameHash(d.content)
         THEN /\ dropped' = "name"
              /\ Goto("run", "while")
              /\ UNCHANGED <<raw_msg, discovered_service>>
         ELSE /\ raw_msg' = d
              /\ discovered_service' =
                    [address |-> d.ip, name_hash |-> d.content.name_hash,
                     identifier |-> d.content.identifier,
                     port |-> d.content.port]
              /\ dropped' = None
              /\ Goto("run", d.content.type \o ":lock")
    /\ UNCHANGED <<sets, mutexes, lifecycle, arg, flag, iter, outputs>>
    /\ UNCHANGED <<running, withdrawn>>

\* mutant: the set is copied and the lock released before the replay
Run_REQUEST_lock_released ==
    /\ pc["run"] = "REQUEST:lock"
    /\ registered_services_mutex_ = Free
    /\ Goto("run", "REQUEST:loop")
    /\ iter' = [iter EXCEPT !["run"] = registered_services_]
    /\ UNCHANGED <<sets, mutexes, lifecycle, arg,
                   flag, runlocals, wire, spawned, transitions,
                   nevents>>
    /\ UNCHANGED <<running, withdrawn>>

Run_REQUEST_lock ==
    /\ pc["run"] = "REQUEST:lock"
    /\ registered_services_mutex_ = Free
    /\ Goto("run", "REQUEST:loop")
    /\ registered_services_mutex_' = "run"
    /\ iter' = [iter EXCEPT !["run"] = registered_services_]
    /\ UNCHANGED <<sets, discovered_services_mutex_,
                   discover_callbacks_mutex_, lifecycle, arg,
                   flag, runlocals, wire, spawned, transitions,
                   nevents>>
    /\ UNCHANGED <<running, withdrawn>>

\* mutant: the identifier comparison is missing
ReplayMatches_all(remaining, service_id) == remaining

\* the services the replay loop has still to send an OFFER for
ReplayMatches(remaining, service_id) ==
    {service \in remaining : service.identifier = service_id}

Run_REQUEST_loop ==
    /\ pc["run"] = "REQUEST:loop"
    /\ LET matches == ReplayMatches(iter["run"], discovered_service.identifier) IN
         /\ matches # {}
         /\ LET service == registered_begin(matches) IN
              /\ SendMessage("OFFER", service, "run", "Run")
              /\ iter' = [iter EXCEPT !["run"] =
                            {e \in iter["run"] : RegisteredService_less(service, e)}]
    /\ UNCHANGED <<sets, mutexes, lifecycle, pc, arg, flag, runlocals,
                   spawned, transitions, nevents>>
    /\ UNCHANGED <<running, withdrawn>>

Run_REQUEST_break ==
    /\ pc["run"] = "REQUEST:loop"
    /\ ReplayMatches(iter["run"], discovered_service.identifier) = {}
    /\ Goto("run", "while")
    /\ registered_services_mutex_' = Free
    /\ iter' = [iter EXCEPT !["run"] = {}]
    /\ raw_msg' = NoDatagram
    /\ discovered_service' = NoDiscovered
    /\ UNCHANGED dropped
    /\ UNCHANGED <<sets, discovered_services_mutex_,
                   discover_callbacks_mutex_, lifecycle, arg,
                   flag, wire, spawned, transitions, nevents>>
    /\ UNCHANGED <<running, withdrawn>>

\* record that the discovered set gained (departing = FALSE) or lost
\* (departing = TRUE) an entry
Transition(service, departing) ==
    transitions' = transitions (+)
        SetToBag({[service |-> service, departing |-> departing]})

\* mutant: a thread is started for every pair, registered or not
SpawnCallbacks_all(service, departing) ==
    /\ spawned' = spawned (+) SetToBag(
          {[callback |-> c, service |-> service, departing |-> departing] :
              c \in Callbacks})
    /\ UNCHANGED running

\* one detached thread per registered callback; one of them is followed
\* if a followed thread is free
SpawnCallbacks(service, departing) ==
    /\ spawned' = spawned (+) SetToBag(
          {[callback |-> c, service |-> service, departing |-> departing] :
              c \in discover_callbacks_})
    /\ LET free == {t \in CallbackThreads : running[t] = NoTask} IN
         IF free = {} \/ discover_callbacks_ = {}
           THEN UNCHANGED running
           ELSE \E t \in free, c \in discover_callbacks_ :
                  running' = [running EXCEPT ![t] =
                     [callback |-> c, service |-> service,
                      departing |-> departing]]

\* the callback body returns and its detached thread ends
Callback_return(t) ==
    /\ pc[t] = "idle"
    /\ running[t] # NoTask
    /\ running' = [running EXCEPT ![t] = NoTask]
    /\ UNCHANGED <<sets, mutexes, lifecycle, pc, arg, flag, iter, runlocals,
                   wire, spawned, transitions, withdrawn, nevents>>

\* mutant: the insertion and the callbacks are not guarded by contains()
Run_OFFER_lock_unchecked ==
    /\ pc["run"] = "OFFER:lock"
    /\ discovered_services_mutex_ = Free
    /\ discovered_services_mutex_' = "run"
    /\ discovered_services_' =
          discovered_insert(discovered_services_, discovered_service)
    /\ Transition(discovered_service, FALSE)
    /\ Goto("run", "OFFER:unlock")
    /\ UNCHANGED <<registered_services_, discover_callbacks_,
                   registered_services_mutex_,
                   discover_callbacks_mutex_, lifecycle, arg,
                   flag, iter, runlocals, wire, spawned, nevents>>
    /\ UNCHANGED <<running, withdrawn>>

Run_OFFER_lock ==
    /\ pc["run"] = "OFFER:lock"
    /\ discovered_services_mutex_ = Free
    /\ discovered_services_mutex_' = "run"
    /\ IF ~discovered_contains(discovered_services_, discovered_service)
         THEN /\ discovered_services_' =
                    discovered_insert(discovered_services_, discovered_service)
              /\ Transition(discovered_service, FALSE)
              /\ Goto("run", "OFFER:unlock")
         ELSE /\ UNCHANGED <<discovered_services_, transitions>>
              /\ Goto("run", "break")
    /\ UNCHANGED <<registered_services_, discover_callbacks_,
                   registered_services_mutex_,
                   discover_callbacks_mutex_, lifecycle, arg,
                   flag, iter, runlocals, wire, spawned, nevents>>
    /\ UNCHANGED <<running, withdrawn>>

\* mutant: the discovered-set lock is kept for the callback loop
Run_OFFER_unlock_kept ==
    /\ pc["run"] = "OFFER:unlock"
    /\ Goto("run", "OFFER:callbacks")
    /\ UNCHANGED <<sets, mutexes, lifecycle, arg,
                   flag, iter, runlocals, wire, spawned,
                   transitions, nevents>>
    /\ UNCHANGED <<running, withdrawn>>

Run_OFFER_unlock ==
    /\ pc["run"] = "OFFER:unlock"
    /\ Goto("run", "OFFER:callbacks")
    /\ discovered_services_mutex_' = Free
    /\ UNCHANGED <<sets, registered_services_mutex_,
                   discover_callbacks_mutex_, lifecycle, arg,
                   flag, iter, runlocals, wire, spawned,
                   transitions, nevents>>
    /\ UNCHANGED <<running, withdrawn>>

Run_OFFER_callbacks ==
    /\ pc["run"] = "OFFER:callbacks"
    /\ discover_callbacks_mutex_ = Free
    /\ Goto("run", "break")
    /\ discover_callbacks_mutex_' = "run"
    /\ SpawnCallbacks(discovered_service, FALSE)
    /\ UNCHANGED <<sets, registered_services_mutex_,
                   discovered_services_mutex_, lifecycle, arg,
                   flag, iter, runlocals, wire, transitions, nevents>>

\* mutant: the callbacks are started whether or not an entry was erased
    /\ UNCHANGED withdrawn

Run_LEAVING_lock_unchecked ==
    /\ pc["run"] = "LEAVING:lock"
    /\ discovered_services_mutex_ = Free
    /\ discovered_services_mutex_' = "run"
    /\ discovered_services_' =
          discovered_erase(discovered_services_, discovered_service)
    /\ UNCHANGED transitions
    /\ Goto("run", "LEAVING:unlock")
    /\ UNCHANGED <<registered_services_, discover_callbacks_,
                   registered_services_mutex_,
                   discover_callbacks_mutex_, lifecycle, arg,
                   flag, iter, runlocals, wire, spawned, nevents>>
    /\ UNCHANGED <<running, withdrawn>>

Run_LEAVING_lock ==
    /\ pc["run"] = "LEAVING:lock"
    /\ discovered_services_mutex_ = Free
    /\ discovered_services_mutex_' = "run"
    /\ IF discovered_contains(discovered_services_, discovered_service)
         THEN /\ discovered_services_' =
                    discovered_erase(discovered_services_, discovered_service)
              /\ Transition(discovered_service, TRUE)
              /\ Goto("run", "LEAVING:unlock")
         ELSE /\ UNCHANGED <<discovered_services_, transitions>>
              /\ Goto("run", "break")
    /\ UNCHANGED <<registered_services_, discover_callbacks_,
                   registered_services_mutex_,
                   discover_callbacks_mutex_, lifecycle, arg,
                   flag, iter, runlocals, wire, spawned, nevents>>
    /\ UNCHANGED <<running, withdrawn>>

Run_LEAVING_unlock ==
    /\ pc["run"] = "LEAVING:unlock"
    /\ Goto("run", "LEAVING:callbacks")
    /\ discovered_services_mutex_' = Free
    /\ UNCHANGED <<sets, registered_services_mutex_,
                   discover_callbacks_mutex_, lifecycle, arg,
                   flag, iter, runlocals, wire, spawned,
                   transitions, nevents>>
    /\ UNCHANGED <<running, withdrawn>>

Run_LEAVING_callbacks ==
    /\ pc["run"] = "LEAVING:callbacks"
    /\ discover_callbacks_mutex_ = Free
    /\ Goto("run", "break")
    /\ discover_callbacks_mutex_' = "run"
    /\ SpawnCallbacks(discovered_service, TRUE)
    /\ UNCHANGED <<sets, registered_services_mutex_,
                   discovered_services_mutex_, lifecycle, arg,
                   flag, iter, runlocals, wire, transitions, nevents>>

\* mutant: discover_callbacks_mutex_ stays locked after the callbacks were
\* started
    /\ UNCHANGED withdrawn

Run_break_kept ==
    /\ pc["run"] = "break"
    /\ Goto("run", "while")
    /\ discovered_services_mutex_' =
          IF discovered_services_mutex_ = "run" THEN Free
          ELSE discovered_services_mutex_
    /\ raw_msg' = NoDatagram
    /\ discovered_service' = NoDiscovered
    /\ UNCHANGED dropped
    /\ UNCHANGED <<sets, registered_services_mutex_,
                   discover_callbacks_mutex_, lifecycle, arg,
                   flag, iter, wire, spawned, transitions,
                   nevents>>
    /\ UNCHANGED <<running, withdrawn>>

\* leaving the case block releases the lock the thread still holds
Run_break ==
    /\ pc["run"] = "break"
    /\ Goto("run", "while")
    /\ discovered_services_mutex_' =
          IF discovered_services_mutex_ = "run" THEN Free
          ELSE discovered_services_mutex_
    /\ discover_callbacks_mutex_' =
          IF discover_callbacks_mutex_ = "run" THEN Free
          ELSE discover_callbacks_mutex_
    /\ raw_msg' = NoDatagram
    /\ discovered_service' = NoDiscovered
    /\ UNCHANGED dropped
    /\ UNCHANGED <<sets, registered_services_mutex_, lifecycle, arg,
                   flag, iter, wire, spawned, transitions,
                   nevents>>
    /\ UNCHANGED <<running, withdrawn>>

Next ==
    \/ \E t \in Callers, service \in RegisteredServices :
          RegisterService_insert(t, service)
    \/ \E t \in Callers : RegisterService_unlock(t)
    \/ \E t \in Callers : RegisterService_send(t)
    \/ \E t \in Callers, service \in RegisteredServices :
          UnregisterService_erase(t, service)
    \/ \E t \in Callers : UnregisterService_unlock(t)
    \/ \E t \in Callers : UnregisterService_send(t)
    \/ \E t \in Callers \cup {"main"} : UnregisterServices_lock(t)
    \/ \E t \in Callers \cup {"main"} : UnregisterServices_loop(t)
    \/ \E t \in Callers \cup {"main"} : UnregisterServices_clear(t)
    \/ \E t \in Callers : GetRegisteredServices_copy(t)
    \/ \E t \in Callers : GetRegisteredServices_return(t)
    \/ \E t \in Callers : GetDiscoveredServices_copy(t)
    \/ \E t \in Callers : GetDiscoveredServices_return(t)
    \/ \E t \in Callers, callback \in Callbacks :
          RegisterDiscoverCallback_emplace(t, callback)
    \/ \E t \in Callers : RegisterDiscoverCallback_return(t)
    \/ \E t \in Callers, callback \in Callbacks :
          UnregisterDiscoverCallback_erase(t, callback)
    \/ \E t \in Callers : UnregisterDiscoverCallback_return(t)
    \/ \E t \in Callers : UnregisterDiscoverCallbacks_clear(t)
    \/ \E t \in Callers : UnregisterDiscoverCallbacks_return(t)
    \/ Start
    \/ Destructor_request_stop
    \/ Destructor_join
    \/ Run_while
    \/ \E d \in Datagrams : Run_RecvBroadcast(d)
    \/ Run_REQUEST_lock
    \/ Run_REQUEST_loop
    \/ Run_REQUEST_break
    \/ Run_OFFER_lock
    \/ Run_OFFER_unlock
    \/ Run_OFFER_callbacks
    \/ Run_LEAVING_lock
    \/ Run_LEAVING_unlock
    \/ Run_LEAVING_callbacks
    \/ Run_break
    \/ \E t \in CallbackThreads : Callback_return(t)

Spec == Init /\ [][Next]_vars

\* ---- scheduling ----
\* the steps a thread takes by itself once it is inside a call; when a call
\* starts is up to the application
AppStep(t) ==
    \/ RegisterService_unlock(t) \/ RegisterService_send(t)
    \/ UnregisterService_unlock(t) \/ UnregisterService_send(t)
    \/ (pc[t] = "UnregisterServices:loop"
          /\ (UnregisterServices_loop(t) \/ UnregisterServices_clear(t)))
    \/ GetRegisteredServices_return(t) \/ GetDiscoveredServices_return(t)
    \/ RegisterDiscoverCallback_return(t)
    \/ UnregisterDiscoverCallback_return(t)
    \/ UnregisterDiscoverCallbacks_return(t)

\* the destructor, once entered, runs to its end as far as it can
MainStep ==
    \/ Destructor_join
    \/ (pc["main"] = "~Manager:UnregisterServices"
          /\ UnregisterServices_lock("main"))
    \/ (pc["main"] = "UnregisterServices:loop"
          /\ (UnregisterServices_loop("main") \/ UnregisterServices_clear("main")))

\* every step of Manager::Run except the return of RecvBroadcast, which
\* needs a datagram from the network (line 135 has no timeout)
RunStep ==
    \/ Run_while
    \/ Run_REQUEST_lock \/ Run_REQUEST_loop \/ Run_REQUEST_break
    \/ Run_OFFER_lock \/ Run_OFFER_unlock \/ Run_OFFER_callbacks
    \/ Run_LEAVING_lock \/ Run_LEAVING_unlock \/ Run_LEAVING_callbacks
    \/ Run_break

\* every thread that can take a step is scheduled eventually
Fairness ==
    /\ \A t \in Callers : WF_vars(AppStep(t))
    /\ WF_vars(MainStep)
    /\ WF_vars(RunStep)

FairSpec == Spec /\ Fairness

(***************************************************************************)
(* Properties                                                              *)
(***************************************************************************)

\* any step of the receive thread after a datagram passed the filters
RunHandlerStep ==
    \/ Run_REQUEST_lock \/ Run_REQUEST_loop \/ Run_REQUEST_break
    \/ Run_OFFER_lock \/ Run_OFFER_unlock \/ Run_OFFER_callbacks
    \/ Run_LEAVING_lock \/ Run_LEAVING_unlock \/ Run_LEAVING_callbacks
    \/ Run_break

ServiceOf(msg) == [identifier |-> msg.identifier, port |-> msg.port]

\* the DiscoveredService D a datagram stands for
DiscoveredOf(d) ==
    [address |-> d.ip, name_hash |-> d.content.name_hash,
     identifier |-> d.content.identifier, port |-> d.content.port]

\* D is in the discovered set, whatever the stored address
Knows(S, D) ==
    \E e \in S : /\ e.name_hash = D.name_hash
                 /\ e.identifier = D.identifier
                 /\ e.port = D.port

\* number of datagrams on the wire of the given type for service s sent from
\* the given function
Sent(type, s, caller) ==
    Cardinality({i \in 1..Len(wire) :
        /\ wire[i].msg.type = type
        /\ ServiceOf(wire[i].msg) = s
        /\ wire[i].caller = caller})

\* the datagram SendMessage(type, s) puts on the wire
WireMessage(type, s) ==
    [type |-> type, group_hash |-> group_hash_, name_hash |-> name_hash_,
     identifier |-> s.identifier, port |-> s.port]

Emits(type, s) ==
    /\ Len(wire') = Len(wire) + 1
    /\ SubSeq(wire', 1, Len(wire)) = wire
    /\ wire'[Len(wire')].msg = WireMessage(type, s)

\* ---- C1 ----
\* C1: a datagram whose name_hash is the local name_hash is dropped: while
\* such a datagram is being processed no step of the receive thread changes
\* registered_services_, discovered_services_ or discover_callbacks_, starts
\* a callback or sends a broadcast, and the receive step itself sends it
\* straight back to the top of the loop.
C1_SelfSuppression ==
    [][/\ pc["run"] = "RecvBroadcast" =>
          \A d \in Datagrams :
            (/\ ~DecodeError(d.content)
             /\ d.content.name_hash = name_hash_
             /\ Run_RecvBroadcast(d))
            => pc'["run"] = "while"
       /\ (/\ RunHandlerStep
           /\ raw_msg # NoDatagram
           /\ raw_msg.content.name_hash = name_hash_)
          => UNCHANGED <<sets, wire, spawned>>]_vars

\* ---- C2 ----
RemoteOffer(msg) ==
    /\ msg.type = "OFFER"
    /\ msg.group_hash = group_hash_
    /\ msg.name_hash # name_hash_

\* C2: when the processing of an OFFER of the local group from another
\* name_hash ends (the loop is back at its top), D is in
\* discovered_services_.
C2_DiscoverRemotePeer ==
    [][pc["run"] = "RecvBroadcast" =>
       \A d \in Datagrams :
          (/\ ~DecodeError(d.content)
           /\ RemoteOffer(d.content)
           /\ Run_RecvBroadcast(d)
           /\ pc'["run"] = "while")
          => Knows(discovered_services_', DiscoveredOf(d))]_vars

\* ---- C3 ----
\* C3: a datagram whose group_hash is not the local group_hash is dropped
\* by the step that receives it, with registered_services_,
\* discovered_services_, discover_callbacks_, the wire and the started
\* callbacks unchanged; and no later step of the receive thread ever works
\* on a datagram of another group.
C3_GroupIsolation ==
    [][/\ pc["run"] = "RecvBroadcast" =>
          \A d \in Datagrams :
            (/\ ~DecodeError(d.content)
             /\ d.content.group_hash # group_hash_
             /\ Run_RecvBroadcast(d))
            => /\ pc'["run"] = "while"
               /\ dropped' = "group"
               /\ UNCHANGED <<sets, wire, spawned, transitions>>
       /\ (/\ RunHandlerStep
           /\ raw_msg # NoDatagram
           /\ raw_msg.content.group_hash # group_hash_)
          => UNCHANGED <<sets, wire, spawned, transitions>>]_vars

\* a datagram of another group has just been dropped while a service and a
\* callback were registered
C3_Witness ==
    /\ dropped = "group"
    /\ registered_services_ # {}
    /\ discover_callbacks_ # {}
    /\ discovered_services_ = {}
    /\ spawned = EmptyBag
    /\ Len(wire) = 1

\* ---- C4 ----
\* threads inside RegisterService(s) past the insertion, by the value of
\* actually_inserted they will return
PendingRegister(s, inserted) ==
    {t \in Callers :
        /\ pc[t] \in {"RegisterService:unlock", "RegisterService:send"}
        /\ service_arg[t] = s
        /\ flag[t] = inserted}

\* s has been removed from registered_services_ at some time, or a call that
\* removes it is under way
Removed(s) ==
    \/ Sent("LEAVING", s, "UnregisterService") > 0
    \/ Sent("LEAVING", s, "UnregisterServices") > 0
    \/ \E t \in Callers :
          /\ pc[t] \in {"UnregisterService:unlock", "UnregisterService:send"}
          /\ service_arg[t] = s
          /\ flag[t]
    \/ \E t \in Callers \cup {"main"} :
          pc[t] = "UnregisterServices:loop" /\ s \in registered_services_

C4_Counts ==
    \A s \in RegisteredServices :
        ~Removed(s) =>
            /\ Sent("OFFER", s, "RegisterService")
                 + Cardinality(PendingRegister(s, TRUE))
               = (IF s \in registered_services_ THEN 1 ELSE 0)
            /\ PendingRegister(s, FALSE) # {} => s \in registered_services_

C4_Steps ==
    /\ \A t \in Callers, s \in RegisteredServices :
          RegisterService_insert(t, s) =>
             /\ flag'[t] = (s \notin registered_services_)
             /\ registered_services_' = registered_services_ \cup {s}
    /\ \A t \in Callers :
          RegisterService_send(t) =>
             /\ IF flag[t] THEN Emits("OFFER", service_arg[t])
                           ELSE wire' = wire
             /\ UNCHANGED sets

\* C4: as long as s has not been removed, the RegisterService(s) calls
\* together put exactly one OFFER for s on the wire: the call that finds s
\* absent inserts it, returns true and sends the OFFER; every other call
\* finds s present, leaves registered_services_ as it is, returns false and
\* sends nothing.
C4_RegistrationIdempotence == []C4_Counts /\ [][C4_Steps]_vars

\* a second RegisterService(s) is about to return false after the first one
\* sent its OFFER
C4_Witness ==
    \E t \in Callers :
        /\ pc[t] = "RegisterService:send"
        /\ ~flag[t]
        /\ ~Removed(service_arg[t])
        /\ Sent("OFFER", service_arg[t], "RegisterService") = 1
        /\ Len(wire) = 1

\* ---- C5 ----
PendingUnregister(s) ==
    {t \in Callers :
        /\ pc[t] \in {"UnregisterService:unlock", "UnregisterService:send"}
        /\ service_arg[t] = s
        /\ flag[t]}

\* UnregisterServices sweeps that have sent the LEAVING for s and cleared
\* the set
SweepsDone(s) ==
    Sent("LEAVING", s, "UnregisterServices")
    - Cardinality({t \in Callers \cup {"main"} :
          /\ pc[t] = "UnregisterServices:loop"
          /\ s \in registered_services_ \ iter[t]})

\* s is in the set exactly when one more call inserted it than removed it
C5_Counts ==
    \A s \in RegisteredServices :
        /\ Sent("OFFER", s, "RegisterService")
             + Cardinality(PendingRegister(s, TRUE))
             - Sent("LEAVING", s, "UnregisterService")
             - Cardinality(PendingUnregister(s))
             - SweepsDone(s)
           = (IF s \in registered_services_ THEN 1 ELSE 0)
        /\ \A t \in Callers :
              (pc[t] = "UnregisterService:unlock" /\ service_arg[t] = s)
              => s \notin registered_services_

C5_Steps ==
    /\ \A t \in Callers, s \in RegisteredServices :
          UnregisterService_erase(t, s) =>
             /\ flag'[t] = (s \in registered_services_)
             /\ registered_services_' = registered_services_ \ {s}
    /\ \A t \in Callers :
          UnregisterService_send(t) =>
             /\ IF flag[t] THEN Emits("LEAVING", service_arg[t])
                           ELSE wire' = wire
             /\ UNCHANGED sets

\* C5: UnregisterService(s) returns true exactly when s was in
\* registered_services_ as it took the lock; it then has removed s and sends
\* one LEAVING for s. Otherwise it returns false, sends nothing and leaves the
\* set as it was. Every LEAVING it sends stands for one removal.
C5_UnregisterService == []C5_Counts /\ [][C5_Steps]_vars

\* UnregisterService(s) has removed a registered s and sent its LEAVING
C5_Witness ==
    \E s \in RegisteredServices :
        /\ Sent("OFFER", s, "RegisterService") = 1
        /\ Sent("LEAVING", s, "UnregisterService") = 1
        /\ s \notin registered_services_
        /\ \A t \in Callers : pc[t] = "idle"

\* ---- C6 ----
SentByMain(s) ==
    Cardinality({i \in 1..Len(wire) :
        /\ wire[i].msg = WireMessage("LEAVING", s)
        /\ wire[i].thread = "main"})

C6_State ==
    /\ pc["main"] \in {"alive", "~Manager:join", "~Manager:UnregisterServices"}
       => \A s \in RegisteredServices : SentByMain(s) = 0
    /\ pc["main"] = "UnregisterServices:loop"
       => /\ iter["main"] \subseteq registered_services_
          /\ \A s \in RegisteredServices :
                SentByMain(s) =
                   (IF s \in registered_services_ \ iter["main"] THEN 1 ELSE 0)
    /\ pc["main"] = "destroyed"
       => /\ registered_services_ = {}
          /\ \A s \in RegisteredServices : SentByMain(s) <= 1

C6_Steps ==
    /\ UnregisterServices_clear("main")
       => /\ \A s \in RegisteredServices :
                SentByMain(s) = (IF s \in registered_services_ THEN 1 ELSE 0)
          /\ registered_services_' = {}
    /\ pc["main"] # "alive"
       => \/ registered_services_' = registered_services_
          \/ UnregisterServices_clear("main")
    /\ pc["main"] = "destroyed" => wire' = wire

\* C6: from the start of the destructor registered_services_ stays as it is
\* until the sweep clears it; when it is cleared, one LEAVING has been sent
\* by the destructor for each service in it and none for any other service;
\* afterwards the set is empty and nothing more is sent.
C6_ShutdownSweep == []C6_State /\ [][C6_Steps]_vars

\* a started Manager with two registered services has been destroyed
C6_Witness ==
    /\ pc["main"] = "destroyed"
    /\ run_thread_ = "joined"
    /\ Cardinality({s \in RegisteredServices : SentByMain(s) = 1}) = 2
    /\ Len(wire) = 4

\* ---- C7 ----
Task(c, D, departing) ==
    [callback |-> c, service |-> D, departing |-> departing]

Change(D, departing) == [service |-> D, departing |-> departing]

\* the receive thread has changed the discovered set for D and has not
\* yet started the callbacks for that change
Undispatched(D, departing) ==
    IF /\ discovered_service = D
       /\ pc["run"] \in (IF departing
                           THEN {"LEAVING:unlock", "LEAVING:callbacks"}
                           ELSE {"OFFER:unlock", "OFFER:callbacks"})
    THEN 1 ELSE 0

\* no callback has been started more often for a change of D than D has
\* changed that way
DispatchesWithin(departing) ==
    \A x \in BagToSet(spawned) :
        x.departing = departing =>
            CopiesIn(x, spawned)
              <= CopiesIn(Change(x.service, departing), transitions)
                 - Undispatched(x.service, departing)

C7_Steps ==
    /\ (Run_OFFER_lock /\ Knows(discovered_services_, discovered_service))
       => /\ UNCHANGED <<discovered_services_, spawned, transitions>>
          /\ pc'["run"] = "break"
    /\ (Run_OFFER_lock /\ ~Knows(discovered_services_, discovered_service))
       => /\ discovered_services_' =
                discovered_services_ \cup {discovered_service}
          /\ CopiesIn(Change(discovered_service, FALSE), transitions')
               = CopiesIn(Change(discovered_service, FALSE), transitions) + 1
    /\ Run_OFFER_callbacks
       => \A c \in Callbacks :
             CopiesIn(Task(c, discovered_service, FALSE), spawned')
               = CopiesIn(Task(c, discovered_service, FALSE), spawned)
                 + (IF c \in discover_callbacks_ THEN 1 ELSE 0)
    /\ (\E x \in BagToSet(spawned') :
           ~x.departing /\ CopiesIn(x, spawned') # CopiesIn(x, spawned))
       => Run_OFFER_callbacks
    /\ (Run_break /\ raw_msg.content.type = "OFFER") => UNCHANGED spawned

\* C7: an OFFER for a D that is already in discovered_services_ changes
\* neither the set nor the started callbacks. Callbacks with departing=false
\* are started only by the step that follows an insertion of D, one for
\* each pair then registered; so no pair is ever started more often for D
\* than D was inserted.
C7_DuplicateOffer == []DispatchesWithin(FALSE) /\ [][C7_Steps]_vars

\* a second OFFER for a known D has been handled: one start per callback
C7_Witness ==
    /\ pc["run"] = "break"
    /\ raw_msg.content.type = "OFFER"
    /\ discovered_services_mutex_ = "run"
    /\ Knows(discovered_services_, discovered_service)
    /\ discover_callbacks_ # {}
    /\ BagCardinality(transitions) = 1
    /\ BagCardinality(spawned) = Cardinality(discover_callbacks_)

\* ---- C8 ----
C8_Steps ==
    /\ (Run_LEAVING_lock /\ Knows(discovered_services_, discovered_service))
       => /\ ~Knows(discovered_services_', discovered_service)
          /\ discovered_services_' \subseteq discovered_services_
          /\ Cardinality(discovered_services_')
               = Cardinality(discovered_services_) - 1
          /\ CopiesIn(Change(discovered_service, TRUE), transitions')
               = CopiesIn(Change(discovered_service, TRUE), transitions) + 1
          /\ pc'["run"] = "LEAVING:unlock"
    /\ (Run_LEAVING_lock /\ ~Knows(discovered_services_, discovered_service))
       => /\ UNCHANGED <<discovered_services_, spawned, transitions>>
          /\ pc'["run"] = "break"
    /\ Run_LEAVING_callbacks
       => \A c \in Callbacks :
             CopiesIn(Task(c, discovered_service, TRUE), spawned')
               = CopiesIn(Task(c, discovered_service, TRUE), spawned)
                 + (IF c \in discover_callbacks_ THEN 1 ELSE 0)
    /\ (\E x \in BagToSet(spawned') :
           x.departing /\ CopiesIn(x, spawned') # CopiesIn(x, spawned))
       => Run_LEAVING_callbacks
    /\ (Run_break /\ raw_msg.content.type = "LEAVING") => UNCHANGED spawned

C8_State ==
    /\ DispatchesWithin(TRUE)
    /\ pc["run"] \in {"LEAVING:unlock", "LEAVING:callbacks"}
       => /\ CopiesIn(Change(discovered_service, TRUE), transitions) >= 1
          /\ pc["run"] = "LEAVING:unlock"
             => ~Knows(discovered_services_, discovered_service)

\* C8: a LEAVING that reaches the switch and finds D in
\* discovered_services_ removes it and then starts one callback with
\* departing=true for each pair registered at that moment; one that does
\* not find D changes nothing and starts nothing. A callback with
\* departing=true is only ever started by the step that follows a removal.
C8_LeavingHandling == []C8_State /\ [][C8_Steps]_vars

\* a LEAVING has removed a discovered D and started the callbacks
C8_Witness ==
    /\ pc["run"] = "break"
    /\ raw_msg.content.type = "LEAVING"
    /\ discover_callbacks_mutex_ = "run"
    /\ discovered_services_ = {}
    /\ discover_callbacks_ # {}
    /\ CopiesIn(Change(discovered_service, TRUE), transitions) = 1
    /\ \A c \in discover_callbacks_ :
          CopiesIn(Task(c, discovered_service, TRUE), spawned) = 1

\* ---- C9 ----
RemoteRequest(msg) ==
    /\ msg.type = "REQUEST"
    /\ msg.group_hash = group_hash_
    /\ msg.name_hash # name_hash_

\* C9: the processing of a REQUEST for identifier k from another peer of
\* the local group does not end before an OFFER has been sent for every
\* service in registered_services_ whose identifier is k.
C9_RequestReplay ==
    [][pc["run"] = "RecvBroadcast" =>
       \A d \in Datagrams :
          (/\ ~DecodeError(d.content)
           /\ RemoteRequest(d.content)
           /\ Run_RecvBroadcast(d)
           /\ pc'["run"] = "while")
          => \A s \in registered_services_ :
                s.identifier = d.content.identifier
                => \E i \in (Len(wire) + 1)..Len(wire') :
                      wire'[i].msg = WireMessage("OFFER", s)]_vars

\* ---- C10 ----
RunRequestStep ==
    Run_REQUEST_lock \/ Run_REQUEST_loop \/ Run_REQUEST_break

C10_Steps ==
    /\ RunRequestStep
       => /\ UNCHANGED <<sets, spawned, transitions>>
          /\ \/ wire' = wire
             \/ \E s \in registered_services_ :
                   /\ s.identifier = discovered_service.identifier
                   /\ Emits("OFFER", s)
    /\ pc["run"] = "REQUEST:loop"
       => registered_services_' = registered_services_
    /\ (Len(wire') > Len(wire) /\ wire'[Len(wire')].thread = "run")
       => Run_REQUEST_loop

C10_State ==
    \A i \in 1..Len(wire) :
        wire[i].thread = "run" => wire[i].msg.type = "OFFER"

\* C10: while a REQUEST for identifier k is processed the receive thread
\* changes none of the three sets and starts no callback; each datagram it
\* sends is an OFFER for a service that is in registered_services_ at that
\* moment and has identifier k, so nothing is sent when there is no such
\* service; the set cannot change during the replay; and the receive thread
\* sends nothing anywhere else, in particular no REQUEST and no LEAVING.
C10_RequestFrame == []C10_State /\ [][C10_Steps]_vars

\* a REQUEST has been answered with the one matching service while a
\* service with another identifier was registered as well
C10_Witness ==
    /\ pc["run"] = "while"
    /\ Len(wire) = 3
    /\ wire[3].thread = "run"
    /\ ServiceOf(wire[3].msg) \in registered_services_
    /\ \E s \in registered_services_ :
          s.identifier # wire[3].msg.identifier

\* ---- C11 ----
\* C11: once the destructor of a started Manager has requested the stop, it
\* finishes: the receive thread leaves RecvBroadcast and exits, join()
\* returns and the sweep completes, whether or not a datagram arrives.
C11_ShutdownTerminates ==
    (pc["main"] = "~Manager:join" /\ run_thread_ = "running")
        ~> (pc["main"] = "destroyed")

\* ---- C12 ----
\* the mutexes thread t holds
Held(t) ==
    {m \in {"registered", "discovered", "callbacks"} :
        \/ m = "registered" /\ registered_services_mutex_ = t
        \/ m = "discovered" /\ discovered_services_mutex_ = t
        \/ m = "callbacks" /\ discover_callbacks_mutex_ = t}

\* thread t can take its next step
CanStep(t) ==
    IF t = "run" THEN ENABLED RunStep
    ELSE IF t = "main" THEN ENABLED MainStep
    ELSE ENABLED AppStep(t)

C12_State ==
    \A t \in Threads :
        /\ Cardinality(Held(t)) <= 1
        /\ Held(t) # {} => CanStep(t)

C12_Steps ==
    /\ \A t \in Threads : Held(t)' \ Held(t) # {} => Held(t) = {}
    /\ (Run_OFFER_callbacks \/ Run_LEAVING_callbacks)
       => /\ discovered_services_mutex_ # "run"
          /\ discover_callbacks_mutex_' = "run"

\* C12: no thread ever holds two of the three mutexes; a thread takes a mutex
\* only while it holds none, in particular the receive thread has released
\* discovered_services_mutex_ when it takes discover_callbacks_mutex_; and
\* a thread that holds a mutex can always take its next step, so no thread
\* waits for a mutex whose holder is itself waiting.
C12_LockNesting == []C12_State /\ [][C12_Steps]_vars

\* all three mutexes are held at once, by three threads, the receive thread
\* holding the callback mutex after an insertion
C12_Witness ==
    /\ discover_callbacks_mutex_ = "run"
    /\ pc["run"] = "break"
    /\ raw_msg.content.type = "OFFER"
    /\ discovered_services_mutex_ \in Callers
    /\ registered_services_mutex_ \in Callers

\* ---- C13 ----
\* this step hands a datagram to SendBroadcast
Sends == Len(wire') = Len(wire) + 1
Sender == wire'[Len(wire')].thread
SentFrom == wire'[Len(wire')].caller

\* C13 as stated: whenever SendBroadcast is called the calling thread holds
\* none of the three mutexes, unless the caller is the receive thread
\* replaying OFFERs for a REQUEST, which holds registered_services_mutex_.
C13_NoLockAcrossIO ==
    [][Sends =>
         \/ Held(Sender) = {}
         \/ /\ Sender = "run"
            /\ pc["run"] = "REQUEST:loop"
            /\ Held("run") = {"registered"}]_vars

\* C13, amended: RegisterService and UnregisterService call SendBroadcast
\* holding no mutex; the REQUEST replay of the receive thread and the loop
\* of UnregisterServices (public call or destructor) call it holding
\* registered_services_mutex_ and no other; discovered_services_mutex_ and
\* discover_callbacks_mutex_ are never held by a thread calling SendBroadcast.
C13_LockAcrossIO ==
    [][Sends =>
         /\ SentFrom \in {"RegisterService", "UnregisterService"}
            => Held(Sender) = {}
         /\ SentFrom = "Run"
            => /\ Sender = "run"
               /\ pc["run"] = "REQUEST:loop"
               /\ Held("run") = {"registered"}
         /\ SentFrom = "UnregisterServices"
            => /\ pc[Sender] = "UnregisterServices:loop"
               /\ Held(Sender) = {"registered"}
         /\ SentFrom \in {"RegisterService", "UnregisterService",
                           "Run", "UnregisterServices"}]_vars

\* RegisterService has sent its OFFER with no mutex held, and then the
\* public UnregisterServices its LEAVING while holding the mutex
C13_Witness ==
    /\ Len(wire) = 2
    /\ wire[1].caller = "RegisterService"
    /\ wire[2].caller = "UnregisterServices"
    /\ wire[2].thread \in Callers
    /\ pc[wire[2].thread] = "UnregisterServices:loop"
    /\ registered_services_mutex_ = wire[2].thread

\* ---- C14 ----
\* everything but the position of the receive thread, the drop reason and
\* the count of events
C14_Rest ==
    <<sets, mutexes, lifecycle, arg, flag, iter, raw_msg, discovered_service,
      wire, spawned, transitions>>

C14_Steps ==
    /\ pc["run"] = "RecvBroadcast" =>
          \A d \in Datagrams :
            (d.content \notin Messages /\ Run_RecvBroadcast(d))
            => /\ pc' = [pc EXCEPT !["run"] = "while"]
               /\ dropped' = "DecodeError"
               /\ UNCHANGED C14_Rest
    /\ (dropped = "DecodeError" /\ Run_while)
       => /\ pc' = [pc EXCEPT !["run"] =
                       IF stop_requested THEN "exited" ELSE "RecvBroadcast"]
          /\ dropped' = None
          /\ UNCHANGED C14_Rest

C14_State ==
    dropped = "DecodeError" => pc["run"] = "while"

\* C14: the step that receives a datagram which does not parse changes
\* nothing but the position of the receive thread, which is back at the top
\* of the loop: the three sets, the mutexes, the wire and the started
\* callbacks are as before. Unless a stop was requested, the next step puts
\* the thread into RecvBroadcast again, in the very state it had before the
\* datagram arrived, so whatever arrives next is handled as if the malformed
\* datagram had not arrived.
C14_DecodeErrorsAbsorbed == []C14_State /\ [][C14_Steps]_vars

\* a malformed datagram has just been dropped by a running loop while a
\* service and a callback were registered
C14_Witness ==
    /\ dropped = "DecodeError"
    /\ pc["run"] = "while"
    /\ ~stop_requested
    /\ registered_services_ # {}
    /\ discover_callbacks_ # {}

\* ---- C15 ----
C15_Steps ==
    /\ \A t \in Callers, c \in Callbacks :
          RegisterDiscoverCallback_emplace(t, c) =>
             /\ flag'[t] = (c \notin discover_callbacks_)
             /\ discover_callbacks_' = discover_callbacks_ \cup {c}
    /\ \A t \in Callers, c \in Callbacks :
          UnregisterDiscoverCallback_erase(t, c) =>
             /\ flag'[t] = (c \in discover_callbacks_)
             /\ discover_callbacks_' = discover_callbacks_ \ {c}
    /\ \A t \in Callers :
          UnregisterDiscoverCallbacks_clear(t) => discover_callbacks_' = {}
    /\ \A t \in Callers :
          (\/ RegisterDiscoverCallback_return(t)
           \/ UnregisterDiscoverCallback_return(t)
           \/ UnregisterDiscoverCallbacks_return(t))
          => UNCHANGED discover_callbacks_
    /\ \A departing \in BOOLEAN :
          (IF departing THEN Run_LEAVING_callbacks ELSE Run_OFFER_callbacks)
          => \A c \in Callbacks :
                CopiesIn(Task(c, discovered_service, departing), spawned')
                  = CopiesIn(Task(c, discovered_service, departing), spawned)
                    + (IF c \in discover_callbacks_ THEN 1 ELSE 0)

\* while a registry call holds the mutex, its return value tells what it did
C15_State ==
    \A t \in Callers :
        /\ pc[t] = "RegisterDiscoverCallback:return"
           => callback_arg[t] \in discover_callbacks_
        /\ pc[t] = "UnregisterDiscoverCallback:return"
           => callback_arg[t] \notin discover_callbacks_

\* C15: discover_callbacks_ is keyed by the pair (callback, data):
\* RegisterDiscoverCallback adds the pair and returns true exactly when that
\* very pair was absent, and otherwise changes nothing and returns false;
\* UnregisterDiscoverCallback removes the pair and returns true exactly when
\* it was present; UnregisterDiscoverCallbacks empties the registry; and a
\* discovery event starts exactly one thread for each pair in the registry.
C15_CallbackRegistry == []C15_State /\ [][C15_Steps]_vars

\* the same function is registered with two data pointers, and a discovery
\* event has started one thread for each of the two pairs
C15_Witness ==
    /\ discover_callbacks_ = Callbacks
    /\ BagCardinality(spawned) = 2
    /\ \A c \in Callbacks : \E x \in BagToSet(spawned) : x.callback = c

\* ---- C16 ----
SameKey(a, b) ==
    /\ a.name_hash = b.name_hash
    /\ a.identifier = b.identifier
    /\ a.port = b.port

\* the entries stored for the key of D under another address than D's
StoredElsewhere(D) ==
    {e \in discovered_services_ : SameKey(e, D) /\ e.address # D.address}

C16_State ==
    \A a \in discovered_services_, b \in discovered_services_ :
        SameKey(a, b) => a = b

C16_Steps ==
    /\ (Run_OFFER_lock /\ StoredElsewhere(discovered_service) # {})
       => /\ UNCHANGED <<discovered_services_, spawned, transitions>>
          /\ pc'["run"] = "break"
    /\ (Run_LEAVING_lock /\ StoredElsewhere(discovered_service) # {})
       => /\ discovered_services_' =
                discovered_services_ \ StoredElsewhere(discovered_service)
          /\ pc'["run"] = "LEAVING:unlock"
    /\ Run_break => UNCHANGED <<discovered_services_, spawned, transitions>>

\* C16: discovered_services_ never holds two entries with the same
\* (name_hash, identifier, port). An OFFER that reaches the switch and finds
\* its key stored under another address leaves the set, and so the stored
\* address, as it is and starts no callback; a LEAVING that finds its key
\* stored under another address removes that entry.
C16_DedupIgnoresAddress == []C16_State /\ [][C16_Steps]_vars

\* a LEAVING from one address has removed the entry an OFFER from the other
\* address had inserted
C16_Witness ==
    /\ pc["run"] = "LEAVING:unlock"
    /\ discovered_services_ = {}
    /\ \E x \in BagToSet(transitions) :
          /\ ~x.departing
          /\ SameKey(x.service, discovered_service)
          /\ x.service.address # discovered_service.address

\* ---- C17 ----
\* the mutex the receive thread is about to take
RunWaitsFor ==
    IF pc["run"] = "REQUEST:lock" THEN registered_services_mutex_
    ELSE IF pc["run"] \in {"OFFER:lock", "LEAVING:lock"}
      THEN discovered_services_mutex_
    ELSE IF pc["run"] \in {"OFFER:callbacks", "LEAVING:callbacks"}
      THEN discover_callbacks_mutex_
    ELSE Free

\* the receive thread is handling a datagram
RunHandling ==
    pc["run"] \in {"REQUEST:lock", "REQUEST:loop", "OFFER:lock",
                   "OFFER:unlock", "OFFER:callbacks", "LEAVING:lock",
                   "LEAVING:unlock", "LEAVING:callbacks", "break"}

C17_State ==
    /\ \A t \in CallbackThreads :
          (running[t] # NoTask /\ pc[t] = "idle") => Held(t) = {}
    /\ ~RunHandling => Held("run") = {}
    /\ RunWaitsFor # Free
       => /\ RunWaitsFor # "run"
          /\ ENABLED (IF RunWaitsFor = "main" THEN MainStep
                       ELSE AppStep(RunWaitsFor))
    /\ (RunHandling /\ RunWaitsFor = Free) => ENABLED RunStep

BroadcastsFor(s) ==
    {i \in 1..Len(wire) :
        /\ ServiceOf(wire[i].msg) = s
        /\ wire[i].caller \in {"RegisterService", "UnregisterService",
                                "UnregisterServices"}}

LastBroadcastFor(s) ==
    wire[CHOOSE i \in BroadcastsFor(s) :
            \A j \in BroadcastsFor(s) : j <= i].msg.type

\* C18: once every call of RegisterService, UnregisterService and
\* UnregisterServices has returned, the last broadcast these operations sent
\* for s is an OFFER if s is in registered_services_ and a LEAVING if it is
\* not (and if none was sent, s is not in the set).
C18_WireOrder ==
    (pc["main"] = "alive" /\ \A t \in Callers : pc[t] = "idle")
    => \A s \in RegisteredServices :
          IF BroadcastsFor(s) = {}
            THEN s \notin registered_services_
            ELSE LastBroadcastFor(s) =
                    (IF s \in registered_services_ THEN "OFFER" ELSE "LEAVING")

\* ---- C19 ----
\* this step starts a thread for the pair c
Spawns(c) ==
    \E x \in BagToSet(spawned') :
        x.callback = c /\ CopiesIn(x, spawned') > CopiesIn(x, spawned)

C19_Steps ==
    \A c \in Callbacks :
        /\ Spawns(c)
           => /\ Run_OFFER_callbacks \/ Run_LEAVING_callbacks
              /\ c \in discover_callbacks_
              /\ discover_callbacks_mutex_ = Free
              /\ discover_callbacks_mutex_' = "run"
        /\ c \in withdrawn => ~Spawns(c)

\* a pair is withdrawn from the moment UnregisterDiscoverCallback or
\* UnregisterDiscoverCallbacks removed it until it is registered again
C19_State ==
    /\ withdrawn \cap discover_callbacks_ = {}
    /\ \A t \in Callers :
          (pc[t] = "UnregisterDiscoverCallback:return" /\ flag[t])
          => callback_arg[t] \in withdrawn

\* C19: threads are started only by the step of the receive thread that
\* takes discover_callbacks_mutex_, and only for the pairs in the registry
\* at that moment; from the removal of a pair by UnregisterDiscoverCallback
\* or UnregisterDiscoverCallbacks until it is registered again no thread is
\* started for it.
C19_NoDispatchAfterUnregister == []C19_State /\ [][C19_Steps]_vars

\* a pair was registered and unregistered, and a discovery event after that
\* has been dispatched without starting a thread
C19_Witness ==
    /\ withdrawn # {}
    /\ discover_callbacks_ = {}
    /\ \A t \in Callers : pc[t] = "idle"
    /\ pc["run"] = "break"
    /\ discover_callbacks_mutex_ = "run"
    /\ BagCardinality(transitions) = 1
    /\ spawned = EmptyBag

\* ---- C20 ----
\* insertions of s by RegisterService so far
Insertions(s) ==
    Sent("OFFER", s, "RegisterService") + Cardinality(PendingRegister(s, TRUE))

\* LEAVINGs for s on the wire
Withdrawals(s) ==
    Sent("LEAVING", s, "UnregisterService")
      + Sent("LEAVING", s, "UnregisterServices")

C20_Steps ==
    \A s \in RegisteredServices :
        (Run_REQUEST_loop /\ Emits("OFFER", s))
        => /\ s \in registered_services_
           /\ registered_services_mutex_ = "run"
           /\ Insertions(s) > Withdrawals(s)

\* while the replay runs no removal of s is under way between its erase and
\* its LEAVING without s having been inserted again
C20_State ==
    pc["run"] = "REQUEST:loop"
    => /\ iter["run"] \subseteq registered_services_
       /\ \A s \in iter["run"] : Insertions(s) > Withdrawals(s)

\* C20: the receive thread replays an OFFER for s only while it holds
\* registered_services_mutex_ and s is in registered_services_; at that
\* moment s has been inserted more often than LEAVINGs for s have been
\* sent, so every removal whose LEAVING is on the wire was followed by a
\* new registration of s. Without one, no OFFER for s is replayed after the
\* LEAVING.
C20_NoReplayAfterWithdrawal == []C20_State /\ [][C20_Steps]_vars

\* s was registered and unregistered, its LEAVING is on the wire, and the
\* receive thread answers a REQUEST for the identifier of s with nothing
C20_Witness ==
    /\ pc["run"] = "REQUEST:loop"
    /\ iter["run"] = {}
    /\ Len(wire) = 2
    /\ wire[1].msg.type = "OFFER"
    /\ wire[2].msg.type = "LEAVING"
    /\ wire[2].caller = "UnregisterService"
    /\ ServiceOf(wire[2].msg) = ServiceOf(wire[1].msg)
    /\ discovered_service.identifier = wire[2].msg.identifier

====
